---- MODULE Spec2Model ----
(***************************************************************************)
(* The Slack notification relay: two request handlers (the richer one with *)
(* the error taxonomy, and the plain one), the Markdown link transform     *)
(* and the Slack error mapper.                                             *)
(*                                                                         *)
(* Strings that the code inspects character by character (the message,    *)
(* the channel name) are sequences of one-character strings. Strings that *)
(* the code only compares or copies (error codes, ts, literals) are        *)
(* TLA+ strings.                                                           *)
(***************************************************************************)
EXTENDS Integers, Sequences, FiniteSets, TLC

VARIABLES
    channelName,   \* request.params?.channel_name
    requestBody,   \* what request.json() will do: raise, or give a JSON value
    token,         \* environment.SLACK_BOT_TOKEN
    slack,         \* what the Slack endpoint does with the POST
    pc,            \* where each handler is
    resp,          \* the Response each handler returned
    posts,         \* the payloads each handler passed to fetch
    reads,         \* how often each handler called slackResponse.json()
    mdPc,          \* the transform's driver
    mdIn,          \* its input text
    mdOut,         \* markdownToSlackMrkdwn(mdIn)
    mdTwice        \* markdownToSlackMrkdwn(mdOut)

vars == <<channelName, requestBody, token, slack, pc, resp, posts, reads,
          mdPc, mdIn, mdOut, mdTwice>>

handlerVars == <<channelName, requestBody, token, slack, pc, resp, posts, reads>>
mdVars == <<mdPc, mdIn, mdOut, mdTwice>>

\* The most segments an input text of the transform is concatenated from.
MaxSegs == 3

-----------------------------------------------------------------------------
(* JavaScript values, as far as the handlers look at them. *)

JUndef == [t |-> "undefined", s |-> <<>>, n |-> 0, b |-> FALSE]
JNull == [t |-> "null", s |-> <<>>, n |-> 0, b |-> FALSE]
JStr(chars) == [t |-> "string", s |-> chars, n |-> 0, b |-> FALSE]
JNum(k) == [t |-> "number", s |-> <<>>, n |-> k, b |-> FALSE]
JBool(v) == [t |-> "boolean", s |-> <<>>, n |-> 0, b |-> v]
JObj == [t |-> "object", s |-> <<>>, n |-> 0, b |-> FALSE]

\* JavaScript's ToBoolean, the test of `!x` and `if (x)`.
Truthy(v) ==
    CASE v.t = "undefined" -> FALSE
      [] v.t = "null" -> FALSE
      [] v.t = "string" -> v.s # <<>>
      [] v.t = "number" -> v.n # 0
      [] v.t = "boolean" -> v.b
      [] OTHER -> TRUE

-----------------------------------------------------------------------------
\* markdownToSlackMrkdwn: text.replace(/\[([^\]]*)\]\((https?:\/\/[^)]+)\)/g,
\* (_, label, url) => `<${url}|${label}>`), as the regular expression engine
\* runs it.

\* The first index >= i of s holding character c, or Len(s) + 1.
RECURSIVE IndexFrom(_, _, _)
IndexFrom(s, c, i) ==
    IF i > Len(s) THEN Len(s) + 1
    ELSE IF s[i] = c THEN i
    ELSE IndexFrom(s, c, i + 1)

\* Whether the literal lit occurs in s at index i.
LiteralAt(s, lit, i) ==
    /\ i + Len(lit) - 1 <= Len(s)
    /\ \A k \in 1..Len(lit) : s[i + k - 1] = lit[k]

\* https?:\/\/ at index i: the index after it, or 0.
SchemeEnd(s, i) ==
    IF LiteralAt(s, <<"h", "t", "t", "p", "s", ":", "/", "/">>, i) THEN i + 8
    ELSE IF LiteralAt(s, <<"h", "t", "t", "p", ":", "/", "/">>, i) THEN i + 7
    ELSE 0

\* An attempt to match the pattern at index i. [^\]]* runs to the next "]"
\* and [^)]+ to the next ")"; neither can give characters back to any
\* effect, so there is at most one match at i. The result is
\* [end, rb], the index of the match's last character and of the label's "]",
\* or end = 0 when the pattern does not match at i.
MatchAt(s, i) ==
    LET rb == IndexFrom(s, "]", i + 1)
        ue == IF rb + 1 <= Len(s) THEN SchemeEnd(s, rb + 2) ELSE 0
        rp == IF ue = 0 THEN 0 ELSE IndexFrom(s, ")", ue)
    IN  IF /\ i <= Len(s)
           /\ s[i] = "["
           /\ rb <= Len(s)
           /\ rb + 1 <= Len(s)
           /\ s[rb + 1] = "("
           /\ ue # 0
           /\ rp <= Len(s)
           /\ rp > ue           \* [^)]+ takes at least one character
        THEN [end |-> rp, rb |-> rb]
        ELSE [end |-> 0, rb |-> 0]

\* The replacement `<${url}|${label}>` of the match s[i..m.end].
Replacement(s, i, m) ==
    <<"<">> \o SubSeq(s, m.rb + 2, m.end - 1) \o <<"|">>
            \o SubSeq(s, i + 1, m.rb - 1) \o <<">">>

\* The replace without the g flag: only the first match is replaced.
RECURSIVE ReplaceFirstFrom(_, _)
ReplaceFirstFrom(s, i) ==
    IF i > Len(s) THEN <<>>
    ELSE LET m == MatchAt(s, i)
         IN  IF m.end # 0
             THEN Replacement(s, i, m) \o SubSeq(s, m.end + 1, Len(s))
             ELSE <<s[i]>> \o ReplaceFirstFrom(s, i + 1)

\* The global replace: scan from index i, a match resumes after its end.
RECURSIVE ReplaceFrom(_, _)
ReplaceFrom(s, i) ==
    IF i > Len(s) THEN <<>>
    ELSE LET m == MatchAt(s, i)
         IN  IF m.end # 0
             THEN Replacement(s, i, m) \o ReplaceFrom(s, m.end + 1)
             ELSE <<s[i]>> \o ReplaceFrom(s, i + 1)

markdownToSlackMrkdwn(text) == ReplaceFrom(text, 1)

-----------------------------------------------------------------------------
\* mapSlackError. clientErrors and forbiddenErrors are object literals, so
\* clientErrors[slackError] also finds what Object.prototype defines: for such
\* a key the lookup gives a function (or, for __proto__, an object), which is
\* truthy and which JSON.stringify leaves out of the response body.

clientErrors ==
    [channel_not_found |-> "Channel not found",
     not_in_channel |-> "Bot is not in that channel"]

forbiddenErrors ==
    [invalid_auth |-> "Invalid Slack token",
     not_authed |-> "Not authenticated",
     token_revoked |-> "Slack token revoked",
     account_inactive |-> "Slack app inactive",
     missing_scope |-> "Bot missing required scope"]

ObjectPrototypeKeys ==
    {"constructor", "toString", "toLocaleString", "valueOf", "hasOwnProperty",
     "isPrototypeOf", "propertyIsEnumerable", "__proto__", "__defineGetter__",
     "__defineSetter__", "__lookupGetter__", "__lookupSetter__"}

\* What JSON.stringify makes of a property whose value is not a string.
NotSerialised == "<omitted by JSON.stringify>"

\* table[key] for an object literal: [found, value].
Lookup(table, key) ==
    IF key \in DOMAIN table THEN [found |-> TRUE, value |-> table[key]]
    ELSE IF key \in ObjectPrototypeKeys THEN [found |-> TRUE, value |-> NotSerialised]
    ELSE [found |-> FALSE, value |-> ""]

\* mapSlackError without its rate_limited branch.
mapSlackErrorNoRateLimit(slackError) ==
    IF Lookup(clientErrors, slackError).found
    THEN [status |-> 400, category |-> "client_error", code |-> slackError,
          message |-> Lookup(clientErrors, slackError).value]
    ELSE IF Lookup(forbiddenErrors, slackError).found
    THEN [status |-> 403, category |-> "forbidden", code |-> slackError,
          message |-> Lookup(forbiddenErrors, slackError).value]
    ELSE [status |-> 500, category |-> "internal_error", code |-> "slack_error",
          message |-> "Slack API error"]

mapSlackError(slackError) ==
    IF Lookup(clientErrors, slackError).found
    THEN [status |-> 400, category |-> "client_error", code |-> slackError,
          message |-> Lookup(clientErrors, slackError).value]
    ELSE IF Lookup(forbiddenErrors, slackError).found
    THEN [status |-> 403, category |-> "forbidden", code |-> slackError,
          message |-> Lookup(forbiddenErrors, slackError).value]
    ELSE IF slackError = "rate_limited"
    THEN [status |-> 429, category |-> "rate_limited", code |-> "rate_limited",
          message |-> "Slack rate limit exceeded"]
    ELSE [status |-> 500, category |-> "internal_error", code |-> "slack_error",
          message |-> "Slack API error"]

\* errorResponse(status, category, code, message) of the richer handler.
errorResponse(status, category, code, message) ==
    [status |-> status,
     body |-> [category |-> category, code |-> code, message |-> message]]

\* The plain handler's new Response(JSON.stringify({error}), {status}).
PlainError(status, error) ==
    [status |-> status, body |-> [error |-> error]]

\* An optional string field of a JSON object: absent, or a string.
Absent == [has |-> FALSE, v |-> ""]
Some(v) == [has |-> TRUE, v |-> v]

\* The success Response with the channel as it was sent to Slack.
SuccessResponsePrefixed(channel, ts) ==
    [status |-> 200,
     body |-> IF ts.has
              THEN [status |-> "ok", channel |-> <<"#">> \o channel, ts |-> ts.v]
              ELSE [status |-> "ok", channel |-> <<"#">> \o channel]]

\* The success Response of both handlers: status 200 by default, and
\* JSON.stringify leaves ts out when slackResult.ts is undefined.
SuccessResponse(channel, ts) ==
    [status |-> 200,
     body |-> IF ts.has
              THEN [status |-> "ok", channel |-> channel, ts |-> ts.v]
              ELSE [status |-> "ok", channel |-> channel]]

\* The body passed to fetch: {channel: `#${channelName}`, text: ...}.
Payload(channel, message) ==
    [channel |-> <<"#">> \o channel, text |-> markdownToSlackMrkdwn(message)]

-----------------------------------------------------------------------------
(* The requests, the configuration and the Slack outcomes the handlers are *)
(* run on.                                                                 *)

Handlers == {"rich", "plain"}

TextHi == <<"h", "i">>
TextBold == <<"*", "b", "*">>
TextLink == <<"[", "a", "]", "(", "h", "t", "t", "p", ":", "/", "/", "x", ")">>

\* request.params?.channel_name: undefined, or a string.
ChannelNames ==
    {JUndef, JStr(<<>>), JStr(<<"o", "p", "s">>), JStr(<<"#", "x">>)}

\* The message field of a JSON object body; JUndef when the field is absent.
MessageValues ==
    {JUndef, JStr(<<>>), JNull, JNum(0), JBool(FALSE),
     JNum(1), JBool(TRUE), JObj,
     JStr(TextHi), JStr(TextBold), JStr(TextLink)}

\* request.json(): raises, or gives null, a number or an object.
RequestBodies ==
    {[parses |-> FALSE, kind |-> "none", message |-> JUndef],
     [parses |-> TRUE, kind |-> "null", message |-> JUndef],
     [parses |-> TRUE, kind |-> "number", message |-> JUndef]}
    \cup {[parses |-> TRUE, kind |-> "object", message |-> m] : m \in MessageValues}

\* environment.SLACK_BOT_TOKEN: unset, empty or set.
Tokens == {JUndef, JStr(<<>>), JStr(<<"x", "o", "x", "b">>)}

ListedSlackErrors ==
    {"channel_not_found", "not_in_channel", "invalid_auth", "not_authed",
     "token_revoked", "account_inactive", "missing_scope", "rate_limited"}

SlackErrors == ListedSlackErrors \cup {"some_unmapped_code", "unknown", "constructor"}

SlackStatuses == {200, 499, 500, 503}

\* The body of Slack's response: not JSON, or the JSON value null, a number,
\* or an object with optional ok, error and ts.
NoBody == [kind |-> "none", ok |-> "absent", error |-> Absent, ts |-> Absent]

SlackBodies ==
    {[kind |-> k, ok |-> "absent", error |-> Absent, ts |-> Absent] :
        k \in {"nonjson", "null", "number"}}
    \cup {[kind |-> "object", ok |-> o, error |-> e, ts |-> s] :
            o \in {"true", "false", "absent"},
            e \in {Absent} \cup {Some(c) : c \in SlackErrors},
            s \in {Absent, Some("1234.5678")}}

Pending == [t |-> "pending", err |-> "", status |-> 0, body |-> NoBody]

\* fetch rejects with err, or resolves with a response.
SlackOutcomes ==
    {[t |-> "throw", err |-> m, status |-> 0, body |-> NoBody] :
        m \in {"fetch failed", "timeout"}}
    \cup {[t |-> "response", err |-> "", status |-> st, body |-> b] :
            st \in SlackStatuses, b \in SlackBodies}

NoResponse == [status |-> 0, body |-> [none |-> TRUE]]

\* body?.message
MessageOf(body) == IF body.kind = "object" THEN body.message ELSE JUndef

\* slackResult.ok, slackResult.error and slackResult.ts of a result that is
\* not null (a number has no such properties).
ResultOk(body) == body.kind = "object" /\ body.ok = "true"
ResultError(body) == IF body.kind = "object" THEN body.error ELSE Absent
ResultTs(body) == IF body.kind = "object" THEN body.ts ELSE Absent

-----------------------------------------------------------------------------
(* The handlers. Each action is the code between two awaits.               *)

Return(h, r) ==
    /\ pc' = [pc EXCEPT ![h] = "returned"]
    /\ resp' = [resp EXCEPT ![h] = r]

Raise(h) ==
    /\ pc' = [pc EXCEPT ![h] = "raised"]
    /\ UNCHANGED resp

Goto(h, where) ==
    /\ pc' = [pc EXCEPT ![h] = where]
    /\ UNCHANGED resp

\* What the awaited fetch settles to. Both handlers are run against the same
\* Slack behaviour: the first to settle fixes it.
Settled == IF slack.t = "pending" THEN SlackOutcomes ELSE {slack}

\* The richer handler up to `await request.json()`.
RichInvoke ==
    /\ pc["rich"] = "start"
    /\ IF ~Truthy(channelName)
       THEN Return("rich", errorResponse(400, "client_error", "missing_channel",
                                         "Missing channel_name"))
       ELSE Goto("rich", "parsing")
    /\ UNCHANGED <<channelName, requestBody, token, slack, posts, reads, mdVars>>

\* RichBodyParsed with the token read and checked before the message.
RichBodyParsedTokenFirst ==
    /\ pc["rich"] = "parsing"
    /\ LET message == MessageOf(requestBody)
       IN  IF ~requestBody.parses
           THEN Return("rich", errorResponse(400, "client_error", "invalid_body",
                                             "Invalid JSON body"))
                /\ UNCHANGED posts
           ELSE IF ~Truthy(token)
           THEN Return("rich", errorResponse(500, "internal_error", "config_error",
                                             "SLACK_BOT_TOKEN not configured"))
                /\ UNCHANGED posts
           ELSE IF ~Truthy(message)
           THEN Return("rich", errorResponse(400, "client_error", "missing_message",
                                             "Missing 'message' field"))
                /\ UNCHANGED posts
           ELSE IF message.t # "string"
           THEN Return("rich", errorResponse(503, "service_unavailable",
                                             "slack_unavailable", "Could not reach Slack"))
                /\ UNCHANGED posts
           ELSE /\ Goto("rich", "fetching")
                /\ posts' = [posts EXCEPT !["rich"] =
                                Append(@, Payload(channelName.s, message.s))]
    /\ UNCHANGED <<channelName, requestBody, token, slack, reads, mdVars>>

\* From the settling of request.json() to `await fetch(...)`. The argument of
\* fetch is evaluated inside the try: text.replace of a message that is not a
\* string raises a TypeError, which the catch answers before fetch is called.
RichBodyParsed ==
    /\ pc["rich"] = "parsing"
    /\ LET message == MessageOf(requestBody)
       IN  IF ~requestBody.parses
           THEN Return("rich", errorResponse(400, "client_error", "invalid_body",
                                             "Invalid JSON body"))
                /\ UNCHANGED posts
           ELSE IF ~Truthy(message)
           THEN Return("rich", errorResponse(400, "client_error", "missing_message",
                                             "Missing 'message' field"))
                /\ UNCHANGED posts
           ELSE IF ~Truthy(token)
           THEN Return("rich", errorResponse(500, "internal_error", "config_error",
                                             "SLACK_BOT_TOKEN not configured"))
                /\ UNCHANGED posts
           ELSE IF message.t # "string"
           THEN Return("rich", errorResponse(503, "service_unavailable",
                                             "slack_unavailable", "Could not reach Slack"))
                /\ UNCHANGED posts
           ELSE /\ Goto("rich", "fetching")
                /\ posts' = [posts EXCEPT !["rich"] =
                                Append(@, Payload(channelName.s, message.s))]
    /\ UNCHANGED <<channelName, requestBody, token, slack, reads, mdVars>>

\* RichFetchSettled with the await of fetch outside the try.
RichFetchSettledNoCatch ==
    /\ pc["rich"] = "fetching"
    /\ \E o \in Settled :
        /\ slack' = o
        /\ IF o.t = "throw"
           THEN Raise("rich") /\ UNCHANGED reads
           ELSE /\ Goto("rich", "reading")
                /\ reads' = [reads EXCEPT !["rich"] = @ + 1]
    /\ UNCHANGED <<channelName, requestBody, token, posts, mdVars>>

\* From the settling of fetch to `await slackResponse.json()`.
RichFetchSettled ==
    /\ pc["rich"] = "fetching"
    /\ \E o \in Settled :
        /\ slack' = o
        /\ IF o.t = "throw"
           THEN Return("rich", errorResponse(503, "service_unavailable",
                                             "slack_unavailable", "Could not reach Slack"))
                /\ UNCHANGED reads
           ELSE /\ Goto("rich", "reading")
                /\ reads' = [reads EXCEPT !["rich"] = @ + 1]
    /\ UNCHANGED <<channelName, requestBody, token, posts, mdVars>>

\* From the settling of slackResponse.json() to the end. The await is outside
\* any try: a body that is not JSON ends the handler with the SyntaxError, and
\* so does reading .ok of null.
RichResultRead ==
    /\ pc["rich"] = "reading"
    /\ IF slack.body.kind = "nonjson"
       THEN Raise("rich")
       ELSE IF slack.status >= 500
       THEN Return("rich", errorResponse(503, "service_unavailable",
                                         "slack_unavailable", "Slack API is unavailable"))
       ELSE IF slack.body.kind = "null"
       THEN Raise("rich")
       ELSE IF ~ResultOk(slack.body)
       THEN LET e == ResultError(slack.body)
                mapped == mapSlackError(IF e.has THEN e.v ELSE "unknown")
            IN  Return("rich", errorResponse(mapped.status, mapped.category,
                                             mapped.code, mapped.message))
       ELSE Return("rich", SuccessResponse(channelName.s, ResultTs(slack.body)))
    /\ UNCHANGED <<channelName, requestBody, token, slack, posts, reads, mdVars>>

\* The plain handler's answer to a caught error of the try around fetch.
PlainUnreachable(details) ==
    [status |-> 502, body |-> [error |-> "Failed to reach Slack API", details |-> details]]

\* The plain handler's answer to a result whose ok is falsy; JSON.stringify
\* leaves slack_error out when slackResult.error is undefined.
PlainSlackError(e) ==
    [status |-> 500,
     body |-> IF e.has
              THEN [error |-> "Slack API error", slack_error |-> e.v]
              ELSE [error |-> "Slack API error"]]

\* The plain handler up to `await request.json()`.
PlainInvoke ==
    /\ pc["plain"] = "start"
    /\ IF ~Truthy(channelName)
       THEN Return("plain", PlainError(400, "Missing channel_name"))
       ELSE Goto("plain", "parsing")
    /\ UNCHANGED <<channelName, requestBody, token, slack, posts, reads, mdVars>>

\* From the settling of request.json() to `await fetch(...)`.
PlainBodyParsed ==
    /\ pc["plain"] = "parsing"
    /\ LET message == MessageOf(requestBody)
       IN  IF ~requestBody.parses
           THEN Return("plain", PlainError(400, "Invalid JSON body"))
                /\ UNCHANGED posts
           ELSE IF ~Truthy(message)
           THEN Return("plain", PlainError(400, "Missing 'message' field"))
                /\ UNCHANGED posts
           ELSE IF ~Truthy(token)
           THEN Return("plain", PlainError(500, "SLACK_BOT_TOKEN not configured"))
                /\ UNCHANGED posts
           ELSE IF message.t # "string"
           THEN Return("plain", PlainUnreachable("text.replace is not a function"))
                /\ UNCHANGED posts
           ELSE /\ Goto("plain", "fetching")
                /\ posts' = [posts EXCEPT !["plain"] =
                                Append(@, Payload(channelName.s, message.s))]
    /\ UNCHANGED <<channelName, requestBody, token, slack, reads, mdVars>>

\* From the settling of fetch to `await slackResponse.json()`.
PlainFetchSettled ==
    /\ pc["plain"] = "fetching"
    /\ \E o \in Settled :
        /\ slack' = o
        /\ IF o.t = "throw"
           THEN Return("plain", PlainUnreachable(o.err))
                /\ UNCHANGED reads
           ELSE /\ Goto("plain", "reading")
                /\ reads' = [reads EXCEPT !["plain"] = @ + 1]
    /\ UNCHANGED <<channelName, requestBody, token, posts, mdVars>>

\* PlainResultRead testing `slackResult.ok === false` in place of `!slackResult.ok`.
PlainResultReadStrictFalse ==
    /\ pc["plain"] = "reading"
    /\ IF slack.body.kind \in {"nonjson", "null"}
       THEN Raise("plain")
       ELSE IF slack.body.kind = "object" /\ slack.body.ok = "false"
       THEN Return("plain", PlainSlackError(ResultError(slack.body)))
       ELSE Return("plain", SuccessResponse(channelName.s, ResultTs(slack.body)))
    /\ UNCHANGED <<channelName, requestBody, token, slack, posts, reads, mdVars>>

\* From the settling of slackResponse.json() to the end.
PlainResultRead ==
    /\ pc["plain"] = "reading"
    /\ IF slack.body.kind \in {"nonjson", "null"}
       THEN Raise("plain")
       ELSE IF ~ResultOk(slack.body)
       THEN Return("plain", PlainSlackError(ResultError(slack.body)))
       ELSE Return("plain", SuccessResponse(channelName.s, ResultTs(slack.body)))
    /\ UNCHANGED <<channelName, requestBody, token, slack, posts, reads, mdVars>>

Init ==
    /\ channelName \in ChannelNames
    /\ requestBody \in RequestBodies
    /\ token \in Tokens
    /\ slack = Pending
    /\ pc = [h \in Handlers |-> "start"]
    /\ resp = [h \in Handlers |-> NoResponse]
    /\ posts = [h \in Handlers |-> <<>>]
    /\ reads = [h \in Handlers |-> 0]
    /\ mdPc = "idle"
    /\ mdIn = <<>>
    /\ mdOut = <<>>
    /\ mdTwice = <<>>

Next ==
    \/ RichInvoke
    \/ RichBodyParsed
    \/ RichFetchSettled
    \/ RichResultRead
    \/ PlainInvoke
    \/ PlainBodyParsed
    \/ PlainFetchSettled
    \/ PlainResultRead

Spec == Init /\ [][Next]_vars

-----------------------------------------------------------------------------
(* The transform on its own, applied once and then to its own output.      *)

Segments ==
    {TextLink,
     <<"[", "]", "(", "h", "t", "t", "p", "s", ":", "/", "/", "y", ")">>,
     <<"[", "a", "]", "(", "h", "t", "t", "p", ":", "/", "/", ")">>,
     <<"[", "a", "]", "(", "h", "t", "t", "p", "s", ":", "/", "/", ")">>,
     <<"[", "a", "]", "(", "f", "t", "p", ":", "/", "/", "x", ")">>,
     <<"(", "h", "t", "t", "p", ":", "/", "/", "x">>,
     <<"[">>, <<"]">>, <<"(">>, <<")">>, <<"a">>, TextBold}

RECURSIVE Texts(_)
Texts(n) ==
    IF n = 0 THEN {<<>>}
    ELSE Texts(n - 1) \cup {t \o g : t \in Texts(n - 1), g \in Segments}

MdInit ==
    /\ mdPc = "start"
    /\ mdIn \in Texts(MaxSegs)
    /\ mdOut = <<>>
    /\ mdTwice = <<>>
    /\ channelName = JUndef
    /\ requestBody = [parses |-> FALSE, kind |-> "none", message |-> JUndef]
    /\ token = JUndef
    /\ slack = Pending
    /\ pc = [h \in Handlers |-> "idle"]
    /\ resp = [h \in Handlers |-> NoResponse]
    /\ posts = [h \in Handlers |-> <<>>]
    /\ reads = [h \in Handlers |-> 0]

MdApply ==
    /\ mdPc = "start"
    /\ mdOut' = markdownToSlackMrkdwn(mdIn)
    /\ mdPc' = "once"
    /\ UNCHANGED <<mdIn, mdTwice, handlerVars>>

MdApplyAgain ==
    /\ mdPc = "once"
    /\ mdTwice' = markdownToSlackMrkdwn(mdOut)
    /\ mdPc' = "twice"
    /\ UNCHANGED <<mdIn, mdOut, handlerVars>>

MdNext == MdApply \/ MdApplyAgain

MdSpec == MdInit /\ [][MdNext]_vars

-----------------------------------------------------------------------------
(* The link syntax as the specification words it, and the replacement of   *)
(* its occurrences, leftmost first and without overlap.                    *)

Http == <<"h", "t", "t", "p", ":", "/", "/">>
Https == <<"h", "t", "t", "p", "s", ":", "/", "/">>

StartsWith(s, prefix) ==
    /\ Len(prefix) <= Len(s)
    /\ SubSeq(s, 1, Len(prefix)) = prefix

\* s[i..j] is [label](url) with "]" at k: label has no "]", url has no ")" and
\* starts with http:// or https://, and is longer than that when nonEmpty.
IsLink(s, i, k, j, nonEmpty) ==
    /\ s[i] = "["
    /\ s[j] = ")"
    /\ s[k] = "]"
    /\ k + 1 < j
    /\ s[k + 1] = "("
    /\ \A m \in (i + 1)..(k - 1) : s[m] # "]"
    /\ \A m \in (k + 2)..(j - 1) : s[m] # ")"
    /\ \E scheme \in {Http, Https} :
        /\ StartsWith(SubSeq(s, k + 2, j - 1), scheme)
        /\ nonEmpty => j - 1 - (k + 1) > Len(scheme)

\* The <<k, j>> for which s[i..j] is a link with its "]" at k.
LinkAt(s, i, nonEmpty) ==
    {kj \in {k \in (i + 1)..Len(s) : s[k] = "]"} \X {j \in (i + 1)..Len(s) : s[j] = ")"} :
        kj[1] < kj[2] /\ IsLink(s, i, kj[1], kj[2], nonEmpty)}

HasLink(s, nonEmpty) == \E i \in 1..Len(s) : s[i] = "[" /\ LinkAt(s, i, nonEmpty) # {}

RECURSIVE LinksReplaced(_, _, _)
LinksReplaced(s, i, nonEmpty) ==
    IF i > Len(s) THEN <<>>
    ELSE IF s[i] = "[" /\ LinkAt(s, i, nonEmpty) # {}
    THEN LET kj == CHOOSE x \in LinkAt(s, i, nonEmpty) : TRUE
         IN  <<"<">> \o SubSeq(s, kj[1] + 2, kj[2] - 1) \o <<"|">>
                     \o SubSeq(s, i + 1, kj[1] - 1) \o <<">">>
                     \o LinksReplaced(s, kj[2] + 1, nonEmpty)
    ELSE <<s[i]>> \o LinksReplaced(s, i + 1, nonEmpty)

\* C9, as claimed: the transform replaces every [label](url) whose url starts
\* with http:// or https:// and has no ")" by <url|label> and keeps every
\* other character; a text without such a link is unchanged, also when the
\* transform is applied a second time.
C9_AsClaimed ==
    /\ mdPc \in {"once", "twice"} => mdOut = LinksReplaced(mdIn, 1, FALSE)
    /\ mdPc \in {"once", "twice"} /\ ~HasLink(mdIn, FALSE) => mdOut = mdIn
    /\ mdPc = "twice" /\ ~HasLink(mdIn, FALSE) => mdTwice = mdOut

\* C9, amended: the same, of every [label](url) whose url is http:// or
\* https:// followed by at least one character, none of them ")".
C9_LinksReplaced ==
    /\ mdPc \in {"once", "twice"} => mdOut = LinksReplaced(mdIn, 1, TRUE)
    /\ mdPc \in {"once", "twice"} /\ ~HasLink(mdIn, TRUE) => mdOut = mdIn
    /\ mdPc = "twice" /\ ~HasLink(mdIn, TRUE) => mdTwice = mdOut

\* Two links in one text, both replaced, the text between them kept.
C9_Witness ==
    /\ mdPc = "twice"
    /\ mdIn = TextLink \o TextBold \o TextLink
    /\ mdOut = <<"<", "h", "t", "t", "p", ":", "/", "/", "x", "|", "a", ">",
                 "*", "b", "*",
                 "<", "h", "t", "t", "p", ":", "/", "/", "x", "|", "a", ">">>

-----------------------------------------------------------------------------
(* The handlers' properties.                                               *)

Done(h) == pc[h] \in {"returned", "raised"}

\* The value is one of those the specification lists as missing.
ListedFalsy(v) == v \in {JUndef, JStr(<<>>), JNull, JNum(0), JBool(FALSE)}

ChannelGiven == ~(channelName \in {JUndef, JStr(<<>>)})
MessageGiven == requestBody.parses /\ ~ListedFalsy(MessageOf(requestBody))
TokenSet == ~(token \in {JUndef, JStr(<<>>)})

IsRichError(r, status, category, code) ==
    /\ r.status = status
    /\ DOMAIN r.body = {"category", "code", "message"}
    /\ r.body.category = category
    /\ r.body.code = code

IsSuccess(r) == r.status = 200 /\ "channel" \in DOMAIN r.body

\* C1: the richer handler checks channel identifier, body parse, message and
\* bot token in this order and answers with the first check that fails:
\* 400 missing_channel, 400 invalid_body, 400 missing_message, 500 config_error.
C1_CheckOrder ==
    /\ pc["rich"] \in {"fetching", "reading", "raised"}
        => ChannelGiven /\ MessageGiven /\ TokenSet
    /\ pc["rich"] = "parsing" => ChannelGiven
    /\ pc["rich"] = "returned" =>
        /\ ~ChannelGiven
            => IsRichError(resp["rich"], 400, "client_error", "missing_channel")
        /\ ChannelGiven /\ ~requestBody.parses
            => IsRichError(resp["rich"], 400, "client_error", "invalid_body")
        /\ ChannelGiven /\ requestBody.parses /\ ~MessageGiven
            => IsRichError(resp["rich"], 400, "client_error", "missing_message")
        /\ ChannelGiven /\ MessageGiven /\ ~TokenSet
            => IsRichError(resp["rich"], 500, "internal_error", "config_error")

\* A body without message and no token: the message check answers.
C1_Witness ==
    /\ pc["rich"] = "returned"
    /\ ChannelGiven
    /\ requestBody.parses /\ MessageOf(requestBody) = JNum(0)
    /\ token = JUndef
    /\ IsRichError(resp["rich"], 400, "client_error", "missing_message")

\* C2: each handler makes at most one POST: exactly one when the channel
\* identifier is present, the body parses, message is truthy and the token is
\* set, and none when a check fails.
C2_OnePost ==
    \A h \in Handlers :
        /\ Len(posts[h]) <= 1
        /\ Done(h) =>
            Len(posts[h]) = IF ChannelGiven /\ MessageGiven /\ TokenSet THEN 1 ELSE 0

\* C3: an ok:false result whose error is none of the eight listed codes, or
\* is absent, gives 500 internal_error slack_error "Slack API error".
C3_DefaultMapping ==
    /\ pc["rich"] = "returned"
    /\ slack.t = "response" /\ slack.status < 500
    /\ slack.body.kind = "object" /\ slack.body.ok = "false"
    /\ ~(slack.body.error.has /\ slack.body.error.v \in ListedSlackErrors)
    => resp["rich"] = errorResponse(500, "internal_error", "slack_error", "Slack API error")

\* The table of section 4.5 of the specification, for the listed codes.
TableRow(code) ==
    CASE code = "channel_not_found" -> <<400, "client_error", "Channel not found">>
      [] code = "not_in_channel" -> <<400, "client_error", "Bot is not in that channel">>
      [] code = "invalid_auth" -> <<403, "forbidden", "Invalid Slack token">>
      [] code = "not_authed" -> <<403, "forbidden", "Not authenticated">>
      [] code = "token_revoked" -> <<403, "forbidden", "Slack token revoked">>
      [] code = "account_inactive" -> <<403, "forbidden", "Slack app inactive">>
      [] code = "missing_scope" -> <<403, "forbidden", "Bot missing required scope">>
      [] code = "rate_limited" -> <<429, "rate_limited", "Slack rate limit exceeded">>

\* C4: an ok:false result with one of the eight listed codes and a status
\* below 500 gives the table's status, category and message, with the Slack
\* code as the response code.
C4_ListedMapping ==
    /\ pc["rich"] = "returned"
    /\ slack.t = "response" /\ slack.status < 500
    /\ slack.body.kind = "object" /\ slack.body.ok = "false"
    /\ slack.body.error.has /\ slack.body.error.v \in ListedSlackErrors
    => LET row == TableRow(slack.body.error.v)
       IN  resp["rich"] =
             [status |-> row[1],
              body |-> [category |-> row[2], code |-> slack.body.error.v,
                        message |-> row[3]]]

C4_Witness ==
    /\ pc["rich"] = "returned"
    /\ slack.t = "response" /\ slack.status = 200
    /\ slack.body.kind = "object" /\ slack.body.ok = "false"
    /\ slack.body.error = Some("rate_limited")
    /\ resp["rich"].status = 429

\* C5: in the richer handler a Slack response with status 500 or above gives
\* 503 service_unavailable slack_unavailable whatever its body is; the plain
\* handler decides on the ok field alone.
C5_StatusFirst ==
    /\ Done("rich") /\ slack.t = "response" /\ slack.status >= 500
        => /\ pc["rich"] = "returned"
           /\ IsRichError(resp["rich"], 503, "service_unavailable", "slack_unavailable")
    /\ pc["plain"] = "returned" /\ slack.t = "response" /\ slack.body.kind = "object"
        => (IsSuccess(resp["plain"]) <=> slack.body.ok = "true")

\* C6: when fetch raises, the handler returns 503 service_unavailable
\* slack_unavailable (richer) or 502 "Failed to reach Slack API" with the
\* error's message as details (plain), and never reads a Slack result.
C6_TransportFailure ==
    slack.t = "throw" =>
        /\ \A h \in Handlers : pc[h] \notin {"reading", "raised"} /\ reads[h] = 0
        /\ pc["rich"] = "returned"
            => IsRichError(resp["rich"], 503, "service_unavailable", "slack_unavailable")
        /\ pc["plain"] = "returned"
            => resp["plain"] =
                 [status |-> 502,
                  body |-> [error |-> "Failed to reach Slack API", details |-> slack.err]]

C6_Witness ==
    /\ slack.t = "throw" /\ slack.err = "timeout"
    /\ pc["rich"] = "returned" /\ resp["rich"].status = 503
    /\ pc["plain"] = "returned" /\ resp["plain"].status = 502
    /\ Len(posts["rich"]) = 1 /\ Len(posts["plain"]) = 1

\* C7: every invocation ends by returning a response and never by raising:
\* the richer handler the success envelope or {category, code, message} with
\* status 400, 403, 429, 500 or 503, the plain one the success envelope or an
\* error with status 400, 500 or 502.
C7_AlwaysResponds ==
    /\ \A h \in Handlers : pc[h] # "raised"
    /\ pc["rich"] = "returned" =>
        \/ IsSuccess(resp["rich"])
        \/ /\ DOMAIN resp["rich"].body = {"category", "code", "message"}
           /\ resp["rich"].status \in {400, 403, 429, 500, 503}
    /\ pc["plain"] = "returned" =>
        \/ IsSuccess(resp["plain"])
        \/ /\ "error" \in DOMAIN resp["plain"].body
           /\ resp["plain"].status \in {400, 500, 502}

\* C8: when Slack answers ok:true (with a status below 500 for the richer
\* handler), the handler returns 200 {status: "ok", channel, ts} with the
\* caller's channel identifier and Slack's ts (left out when Slack gave none),
\* and has sent {channel: "#" + identifier, text: the transformed message}.
C8_Success ==
    \A h \in Handlers :
        /\ pc[h] = "returned"
        /\ slack.t = "response"
        /\ slack.body.kind = "object" /\ slack.body.ok = "true"
        /\ h = "rich" => slack.status < 500
        => /\ resp[h].status = 200
           /\ resp[h].body =
                IF slack.body.ts.has
                THEN [status |-> "ok", channel |-> channelName.s, ts |-> slack.body.ts.v]
                ELSE [status |-> "ok", channel |-> channelName.s]
           /\ posts[h] =
                <<[channel |-> <<"#">> \o channelName.s,
                   text |-> LinksReplaced(MessageOf(requestBody).s, 1, TRUE)]>>

C8_Witness ==
    /\ pc["rich"] = "returned" /\ pc["plain"] = "returned"
    /\ channelName = JStr(<<"o", "p", "s">>)
    /\ MessageOf(requestBody) = JStr(TextLink)
    /\ slack.body.ts = Some("1234.5678")
    /\ resp["rich"] =
         [status |-> 200,
          body |-> [status |-> "ok", channel |-> <<"o", "p", "s">>, ts |-> "1234.5678"]]
    /\ resp["plain"] = resp["rich"]
    /\ posts["rich"] =
         <<[channel |-> <<"#", "o", "p", "s">>,
            text |-> <<"<", "h", "t", "t", "p", ":", "/", "/", "x", "|", "a", ">">>]>>

\* C10, as claimed: on the same request, token and Slack outcome the two
\* handlers make the same calls with the same payload, and one returns the
\* success envelope exactly when the other does, with the same body.
C10_AsClaimed ==
    Done("rich") /\ Done("plain") =>
        /\ posts["rich"] = posts["plain"]
        /\ IsSuccess(resp["rich"]) <=> IsSuccess(resp["plain"])
        /\ IsSuccess(resp["rich"]) => resp["rich"] = resp["plain"]

\* C10, amended: the same calls with the same payload; when the richer
\* handler returns the success envelope the plain one returns the same; only
\* the plain one does exactly when Slack's status is 500 or above with
\* ok:true, where the richer one returns 503 slack_unavailable.
C10_SameButSlack5xx ==
    Done("rich") /\ Done("plain") =>
        /\ posts["rich"] = posts["plain"]
        /\ IsSuccess(resp["rich"]) => resp["rich"] = resp["plain"]
        /\ IsSuccess(resp["plain"]) /\ ~IsSuccess(resp["rich"]) =>
            /\ slack.status >= 500
            /\ pc["rich"] = "returned"
            /\ IsRichError(resp["rich"], 503, "service_unavailable", "slack_unavailable")
        /\ /\ slack.t = "response" /\ slack.status >= 500
           /\ slack.body.kind = "object" /\ slack.body.ok = "true"
           => IsSuccess(resp["plain"]) /\ ~IsSuccess(resp["rich"])

C10_Witness ==
    /\ pc["rich"] = "returned" /\ pc["plain"] = "returned"
    /\ slack.t = "response" /\ slack.status = 500
    /\ posts["rich"] = posts["plain"] /\ Len(posts["rich"]) = 1
    /\ IsSuccess(resp["plain"])
    /\ resp["rich"].status = 503

====
